---- MODULE Spec2Model ----
(***************************************************************************)
(* Eisenstein integer arithmetic of package eisen (stein.go).              *)
(*                                                                         *)
(* stein.go carries two definitions of every method.  The first (v1,      *)
(* lines 1-186) reads operands through the pointers returned by L()/R()   *)
(* and writes the destination with SetL/SetR.  The second (v2, lines      *)
(* 188-375) works on &z.l / &z.r in place.  A Stein value lives in a heap *)
(* cell; a method call names the cells of its receiver and operands, so   *)
(* that the same cell may be passed more than once (aliasing).            *)
(***************************************************************************)
EXTENDS Integers, Sequences, FiniteSets, TLC

\* ---------------------------------------------------------------- bounds
MaxC == 2

\* ----------------------------------------------------------- value space
Range == (0 - MaxC)..MaxC

Stein == [l : Range, r : Range]

Pair(a, b) == [l |-> a, r |-> b]

Zero == Pair(0, 0)

\* third test argument: the zero value, units and a few non-units
ZVals == {Pair(0, 0), Pair(1, 0), Pair(0, 1), Pair(-1, -1),
          Pair(1, -1), Pair(-2, 1)}

Versions == {1, 2}

ArgCells == {"x", "y", "z"}

SrcCells == {"x", "y"}

LocalCells == {"l", "r", "n", "p", "q", "u", "a", "b", "c", "d", "e", "f"}

Cells == ArgCells \cup LocalCells

Nil == "nil"

NoError == "none"

DivByZero == "division by zero"

NilDeref == "nil pointer dereference"

ZeroDivisorRejected == "zero divisor rejected"

\* in     : the argument values x, y, z the call or test closure was entered with
\* heap   : the l and r components of every Stein cell
\* op     : the method or test that ran, its version, receiver and operand cells
\* ret    : the values returned (Quad, Associates) or compared (tests)
\* err    : the run-time panic the call ended with, if any
\* denoms : the denominators handed to big.Int.Quo, in call order
\* pc     : "start" before the call, "done" after it
VARIABLES in, heap, op, ret, err, denoms, pc

vars == <<in, heap, op, ret, err, denoms, pc>>

Abs(n) == IF n < 0 THEN 0 - n ELSE n

\* big.Int.Quo as called by Quo: truncated division (rounds toward zero) for a
\* nonzero denominator; a zero denominator is a run-time panic, raised by the
\* callers below before this operator is applied
BigQuo(p, n) ==
  LET q == Abs(p) \div Abs(n)
  IN IF (p < 0) # (n < 0) THEN 0 - q ELSE q

\* ------------------------------------------------------ component access
\* v1 assigns the big.Int struct (z.l = *a), v2 writes &z.l in place; within
\* the package both replace the component's value and leave the source as is
SetL(h, z, v) == [h EXCEPT ![z].l = v]

SetR(h, z, v) == [h EXCEPT ![z].r = v]

\* ------------------------------------------------------------------- v1
Copy_v1(h, z, y) ==
  LET h1 == SetL(h, z, h[y].l)
  IN SetR(h1, z, h1[y].r)

Neg_v1(h, z, y) ==
  LET h1 == SetL(h, z, 0 - h[y].l)
  IN SetR(h1, z, 0 - h1[y].r)

Conj_v1_RightFirst(h, z, y) ==
  LET h1 == SetR(h, z, 0 - h[y].r)
  IN SetL(h1, z, h1[y].l - h1[y].r)

Conj_v1(h, z, y) ==
  LET h1 == SetL(h, z, h[y].l - h[y].r)
  IN SetR(h1, z, 0 - h1[y].r)

Add_v1(h, z, x, y) ==
  LET h1 == SetL(h, z, h[x].l + h[y].l)
  IN SetR(h1, z, h1[x].r + h1[y].r)

\* a, b, c, d are pointers into x and y: every use reads the cell as it is
\* at that moment
Mul_v1(h, z, x, y) ==
  LET s  == (h[x].l * h[y].l) - (h[y].r * h[x].r)
      h1 == SetL(h, z, s)
      t  == (h1[y].r * h1[x].l) + (h1[x].r * h1[y].l)
      h2 == SetR(h1, z, t)
      v  == h2[z].r - (h2[x].r * h2[y].r)
  IN SetR(h2, z, v)

Quad_v1(h, z) ==
  LET quad == (h[z].l * h[z].l) + (h[z].r * h[z].r)
  IN quad - (h[z].l * h[z].r)

Quo_v1(h, z, x, y) ==
  LET quad == Quad_v1(h, y)
      h1   == Conj_v1(h, z, y)
      h2   == Mul_v1(h1, z, x, z)
  IN IF quad = 0
       THEN [h |-> h2, err |-> DivByZero, denoms |-> <<quad>>]
       ELSE LET h3 == SetL(h2, z, BigQuo(h2[z].l, quad))
                h4 == SetR(h3, z, BigQuo(h3[z].r, quad))
            IN [h |-> h4, err |-> NoError, denoms |-> <<quad, quad>>]

New_v1(h, z, a, b) == SetR(SetL(h, z, a), z, b)

Associates_v1(h, z) ==
  LET h0  == New_v1(h, "u", 0, 1)
      h1  == Copy_v1(h0, "a", z)
      h2  == Neg_v1(h1, "b", z)
      h3  == Mul_v1(h2, "c", z, "u")
      h4  == Neg_v1(h3, "u", "u")
      h5  == Mul_v1(h4, "d", z, "u")
      h6  == Mul_v1(h5, "u", "u", "u")
      h7  == Mul_v1(h6, "e", z, "u")
      h8  == Neg_v1(h7, "u", "u")
      h9  == Mul_v1(h8, "f", z, "u")
  IN [h |-> h9, err |-> NoError,
      ret |-> <<h9["a"], h9["b"], h9["c"], h9["d"], h9["e"], h9["f"]>>]

\* ------------------------------------------------------------------- v2
Omega(h, z) == [h EXCEPT ![z] = Pair(0, 1)]

Copy_v2(h, z, y) ==
  LET h1 == SetL(h, z, h[y].l)
  IN SetR(h1, z, h1[y].r)

Neg_v2(h, z, y) ==
  LET h1 == SetL(h, z, 0 - h[y].l)
  IN SetR(h1, z, 0 - h1[y].r)

Conj_v2_RightFirst(h, z, y) ==
  LET h1 == SetR(h, z, 0 - h[y].r)
  IN SetL(h1, z, h1[y].l - h1[y].r)

Conj_v2(h, z, y) ==
  LET h1 == SetL(h, z, h[y].l - h[y].r)
  IN SetR(h1, z, 0 - h1[y].r)

Add_v2(h, z, x, y) ==
  LET h1 == SetL(h, z, h[x].l + h[y].l)
  IN SetR(h1, z, h1[x].r + h1[y].r)

Mul_v2_NoSnapshot(h, z, x, y) ==
  LET h1 == SetL(h, z, h[x].l * h[y].l)
      h2 == SetL(h1, z, h1[z].l - (h1[y].r * h1[x].r))
      h3 == SetR(h2, z, h2[y].r * h2[x].l)
      h4 == SetR(h3, z, h3[z].r + (h3[x].r * h3[y].l))
  IN SetR(h4, z, h4[z].r - (h4[x].r * h4[y].r))

\* a, b, c, d are fresh copies taken before the first write
Mul_v2(h, z, x, y) ==
  LET a  == h[x].l
      b  == h[x].r
      c  == h[y].l
      d  == h[y].r
      h1 == SetL(h, z, a * c)
      h2 == SetL(h1, z, h1[z].l - (d * b))
      h3 == SetR(h2, z, d * a)
      h4 == SetR(h3, z, h3[z].r + (b * c))
  IN SetR(h4, z, h4[z].r - (b * d))

Quad_v2_SquareOfDifference(h, z) ==
  LET quad == (h[z].l * h[z].l) + (h[z].r * h[z].r)
  IN quad - (2 * (h[z].l * h[z].r))

Quad_v2(h, z) ==
  LET quad == (h[z].l * h[z].l) + (h[z].r * h[z].r)
  IN quad - (h[z].l * h[z].r)

Quo_v2_Floor(h, z, x, y) ==
  LET quad == Quad_v2(h, y)
      h1   == Conj_v2(h, z, y)
      h2   == Mul_v2(h1, z, x, z)
  IN IF quad = 0
       THEN [h |-> h2, err |-> DivByZero, denoms |-> <<quad>>]
       ELSE LET h3 == SetL(h2, z, h2[z].l \div quad)
                h4 == SetR(h3, z, h3[z].r \div quad)
            IN [h |-> h4, err |-> NoError, denoms |-> <<quad, quad>>]

Quo_v2_NoConj(h, z, x, y) ==
  LET quad == Quad_v2(h, y)
      h1   == Copy_v2(h, z, y)
      h2   == Mul_v2(h1, z, x, z)
  IN IF quad = 0
       THEN [h |-> h2, err |-> DivByZero, denoms |-> <<quad>>]
       ELSE LET h3 == SetL(h2, z, BigQuo(h2[z].l, quad))
                h4 == SetR(h3, z, BigQuo(h3[z].r, quad))
            IN [h |-> h4, err |-> NoError, denoms |-> <<quad, quad>>]

Quo_v2(h, z, x, y) ==
  LET quad == Quad_v2(h, y)
      h1   == Conj_v2(h, z, y)
      h2   == Mul_v2(h1, z, x, z)
  IN IF quad = 0
       THEN [h |-> h2, err |-> DivByZero, denoms |-> <<quad>>]
       ELSE LET h3 == SetL(h2, z, BigQuo(h2[z].l, quad))
                h4 == SetR(h3, z, BigQuo(h3[z].r, quad))
            IN [h |-> h4, err |-> NoError, denoms |-> <<quad, quad>>]

\* the named results a..f are nil pointers when the body starts
Associates_v2(h, z) ==
  LET a == Nil
      b == Nil
      c == Nil
      d == Nil
      e == Nil
      f == Nil
  IN IF \E p \in {a, b, c, d, e, f} : p \notin Cells
       THEN [h |-> h, err |-> NilDeref, ret |-> <<>>]
       ELSE LET h1 == Copy_v2(h, a, z)
                h2 == Neg_v2(h1, b, z)
                h3 == Omega(h2, "u")
                h4 == Mul_v2(h3, c, z, "u")
                h5 == Neg_v2(h4, "u", "u")
                h6 == Mul_v2(h5, d, z, "u")
                h7 == Mul_v2(h6, "u", "u", "u")
                h8 == Mul_v2(h7, e, z, "u")
                h9 == Neg_v2(h8, "u", "u")
                h10 == Mul_v2(h9, f, z, "u")
            IN [h |-> h10, err |-> NoError,
                ret |-> <<h10[a], h10[b], h10[c], h10[d], h10[e], h10[f]>>]

\* ------------------------------------------------------ version dispatch
Conj(v, h, z, y) == IF v = 1 THEN Conj_v1(h, z, y) ELSE Conj_v2(h, z, y)

Add(v, h, z, x, y) == IF v = 1 THEN Add_v1(h, z, x, y) ELSE Add_v2(h, z, x, y)

Mul(v, h, z, x, y) == IF v = 1 THEN Mul_v1(h, z, x, y) ELSE Mul_v2(h, z, x, y)

Quad(v, h, z) == IF v = 1 THEN Quad_v1(h, z) ELSE Quad_v2(h, z)

Quo(v, h, z, x, y) == IF v = 1 THEN Quo_v1(h, z, x, y) ELSE Quo_v2(h, z, x, y)

Associates(v, h, z) == IF v = 1 THEN Associates_v1(h, z) ELSE Associates_v2(h, z)

\* ----------------------------------------------------------------- state
InitHeap(i) == [k \in Cells |-> IF k \in ArgCells THEN i[k] ELSE Zero]

NoOp == [name |-> "none", ver |-> 0, dst |-> "-", a |-> "-", b |-> "-"]

Init ==
  /\ in \in [ArgCells -> Stein]
  /\ in["z"] \in ZVals
  /\ heap = InitHeap(in)
  /\ op = NoOp
  /\ ret = <<>>
  /\ err = NoError
  /\ denoms = <<>>
  /\ pc = "start"

Done(name, v, dst, a, b) ==
  /\ op' = [name |-> name, ver |-> v, dst |-> dst, a |-> a, b |-> b]
  /\ pc' = "done"
  /\ UNCHANGED in

CallConj(v, dst, src) ==
  /\ pc = "start"
  /\ heap' = Conj(v, heap, dst, src)
  /\ ret' = <<>>
  /\ UNCHANGED <<err, denoms>>
  /\ Done("Conj", v, dst, src, "-")

CallMul(v, dst, a, b) ==
  /\ pc = "start"
  /\ heap' = Mul(v, heap, dst, a, b)
  /\ ret' = <<>>
  /\ UNCHANGED <<err, denoms>>
  /\ Done("Mul", v, dst, a, b)

CallQuad(v, src) ==
  /\ pc = "start"
  /\ ret' = <<Quad(v, heap, src)>>
  /\ UNCHANGED <<heap, err, denoms>>
  /\ Done("Quad", v, "-", src, "-")

CallQuo(v, dst, a, b) ==
  /\ pc = "start"
  /\ LET res == Quo(v, heap, dst, a, b)
     IN /\ heap' = res.h
        /\ err' = res.err
        /\ denoms' = res.denoms
  /\ ret' = <<>>
  /\ Done("Quo", v, dst, a, b)

CallAssociates(v, src) ==
  /\ pc = "start"
  /\ LET res == Associates(v, heap, src)
     IN /\ heap' = res.h
        /\ err' = res.err
        /\ ret' = res.ret
  /\ UNCHANGED denoms
  /\ Done("Associates", v, "-", src, "-")

\* Equals reports whether both components agree
Equals(h, z, y) == ~(h[z].l # h[y].l \/ h[z].r # h[y].r)

\* new(Stein): the zero value in fresh storage
NewStein(h, k) == [h EXCEPT ![k] = Zero]

TestResult(h) == <<h["l"], h["r"], Equals(h, "l", "r")>>

\* l.Mul(l.Mul(x, y), z); r.Mul(x, r.Mul(y, z)); l.Equals(r)
TestMulAssociative(v) ==
  /\ pc = "start"
  /\ LET h0 == NewStein(NewStein(heap, "l"), "r")
         h1 == Mul(v, h0, "l", "x", "y")
         h2 == Mul(v, h1, "l", "l", "z")
         h3 == Mul(v, h2, "r", "y", "z")
         h4 == Mul(v, h3, "r", "x", "r")
     IN /\ heap' = h4
        /\ ret' = TestResult(h4)
  /\ UNCHANGED <<err, denoms>>
  /\ Done("TestMulAssociative", v, "-", "-", "-")

\* l.Conj(l.Conj(x)); l.Equals(x)
TestConjInvolutive(v) ==
  /\ pc = "start"
  /\ LET h0 == NewStein(heap, "l")
         h1 == Conj(v, h0, "l", "x")
         h2 == Conj(v, h1, "l", "l")
     IN /\ heap' = h2
        /\ ret' = <<h2["l"], h2["x"], Equals(h2, "l", "x")>>
  /\ UNCHANGED <<err, denoms>>
  /\ Done("TestConjInvolutive", v, "-", "-", "-")

\* l.Conj(l.Mul(x, y)); r.Mul(r.Conj(y), new(Stein).Conj(x)); l.Equals(r)
TestMulConjAntiDistributive(v) ==
  /\ pc = "start"
  /\ LET h0 == NewStein(NewStein(heap, "l"), "r")
         h1 == Mul(v, h0, "l", "x", "y")
         h2 == Conj(v, h1, "l", "l")
         h3 == Conj(v, h2, "r", "y")
         h4 == Conj(v, NewStein(h3, "n"), "n", "x")
         h5 == Mul(v, h4, "r", "r", "n")
     IN /\ heap' = h5
        /\ ret' = TestResult(h5)
  /\ UNCHANGED <<err, denoms>>
  /\ Done("TestMulConjAntiDistributive", v, "-", "-", "-")

\* l.Add(x, y); l.Conj(l); r.Add(r.Conj(x), new(Stein).Conj(y)); l.Equals(r)
TestAddConjDistributive(v) ==
  /\ pc = "start"
  /\ LET h0 == NewStein(NewStein(heap, "l"), "r")
         h1 == Add(v, h0, "l", "x", "y")
         h2 == Conj(v, h1, "l", "l")
         h3 == Conj(v, h2, "r", "x")
         h4 == Conj(v, NewStein(h3, "n"), "n", "y")
         h5 == Add(v, h4, "r", "r", "n")
     IN /\ heap' = h5
        /\ ret' = TestResult(h5)
  /\ UNCHANGED <<err, denoms>>
  /\ Done("TestAddConjDistributive", v, "-", "-", "-")

\* p.Mul(x, y) followed by q.Quo(p, y), p and q fresh
MulThenQuo(v) ==
  /\ pc = "start"
  /\ LET h0  == NewStein(NewStein(heap, "p"), "q")
         h1  == Mul(v, h0, "p", "x", "y")
         res == Quo(v, h1, "q", "p", "y")
     IN /\ heap' = res.h
        /\ err' = res.err
        /\ denoms' = res.denoms
  /\ ret' = <<>>
  /\ Done("MulThenQuo", v, "q", "p", "y")

Next ==
  \E v \in Versions :
    \/ \E dst \in ArgCells, src \in SrcCells : CallConj(v, dst, src)
    \/ \E dst \in ArgCells, a \in SrcCells, b \in SrcCells : CallMul(v, dst, a, b)
    \/ \E src \in SrcCells : CallQuad(v, src)
    \/ \E dst \in ArgCells, a \in SrcCells, b \in SrcCells : CallQuo(v, dst, a, b)
    \/ \E src \in SrcCells : CallAssociates(v, src)
    \/ TestMulAssociative(v)
    \/ TestConjInvolutive(v)
    \/ TestMulConjAntiDistributive(v)
    \/ TestAddConjDistributive(v)
    \/ MulThenQuo(v)

Spec == Init /\ [][Next]_vars

TypeOK ==
  /\ pc \in {"start", "done"}
  /\ err \in {NoError, DivByZero, NilDeref}
  /\ in \in [ArgCells -> Stein]

\* ------------------------------------------------- values the claims name
\* (ac - bd, ad + bc - bd)
Product(x, y) ==
  Pair((x.l * y.l) - (x.r * y.r), ((x.l * y.r) + (x.r * y.l)) - (x.r * y.r))

\* (a - b, -b)
Conjugate(x) == Pair(x.l - x.r, 0 - x.r)

\* a^2 + b^2 - ab
Norm(x) == ((x.l * x.l) + (x.r * x.r)) - (x.l * x.r)

\* q is p / n rounded toward zero, n > 0
IsTrunc(q, p, n) ==
  /\ n * Abs(q) <= Abs(p)
  /\ Abs(p) < n * (Abs(q) + 1)
  /\ (q > 0 => p > 0)
  /\ (q < 0 => p < 0)

\* x, -x, x.w, x.(-w), x.w^2, x.(-w^2)
AssociatesClaimed(x) ==
  <<Pair(x.l, x.r), Pair(0 - x.l, 0 - x.r), Pair(0 - x.r, x.l - x.r),
    Pair(x.r, x.r - x.l), Pair(x.r - x.l, 0 - x.l), Pair(x.l - x.r, x.l)>>

\* the destination after the same Quo run with fresh, distinct result storage
QuoUnaliased(v, i, a, b) == Quo(v, NewStein(InitHeap(i), "n"), "n", a, b).h["n"]

\* C1: for y # 0, Quo leaves in z the value the unaliased run leaves, also
\* when z is the storage of x, of y, or of both (both definitions of Quo).
C1_QuoAliasingSafe ==
  (op.name = "Quo" /\ in[op.b] # Zero)
    => heap[op.dst] = QuoUnaliased(op.ver, in, op.a, op.b)

\* C2: the snapshotting Mul leaves (ac - bd, ad + bc - bd) in the destination
\* under every aliasing of z with x and y, and the nested aliased calls of
\* TestMulAssociative end with l equal to r.
C2_MulSnapshotProduct ==
  /\ (op.name = "Mul" /\ op.ver = 2)
       => heap[op.dst] = Product(in[op.a], in[op.b])
  /\ (op.name = "TestMulAssociative" /\ op.ver = 2)
       => (ret[3] /\ ret[1] = ret[2])

C2_Witness ==
  /\ op.name = "Mul" /\ op.ver = 2
  /\ op.dst = op.a /\ op.a = op.b
  /\ in[op.a].l # 0 /\ in[op.a].r # 0
  /\ heap[op.dst] # in[op.a]

\* C3: the pointer-reading Mul leaves (ac - bd, ad + bc - bd) in the
\* destination also when z is the storage of x, of y, or of both.
C3_MulPointerProduct ==
  (op.name = "Mul" /\ op.ver = 1)
    => heap[op.dst] = Product(in[op.a], in[op.b])

\* C4: Associates completes normally and returns x, -x, x.w, x.(-w), x.w^2,
\* x.(-w^2) in this order (both definitions of Associates).
C4_AssociatesSixValues ==
  op.name = "Associates"
    => (err = NoError /\ ret = AssociatesClaimed(in[op.a]))

\* C5: Quo with a zero divisor ends in an explicit rejection and never hands
\* a zero denominator to the integer division.
C5_QuoRejectsZeroDivisor ==
  (op.name = "Quo" /\ in[op.b] = Zero)
    => /\ err = ZeroDivisorRejected
       /\ \A i \in 1..Len(denoms) : denoms[i] # 0

\* C6: with z distinct from x and y and y # 0, Quo sets each component of z
\* to the component of x.conjugate(y) divided by Quad(y), rounded toward zero.
C6_QuoTruncates ==
  (op.name = "Quo" /\ op.ver = 2 /\ op.dst \notin {op.a, op.b} /\ in[op.b] # Zero)
    => LET n == Norm(in[op.b])
           p == Product(in[op.a], Conjugate(in[op.b]))
       IN /\ err = NoError
          /\ IsTrunc(heap[op.dst].l, p.l, n)
          /\ IsTrunc(heap[op.dst].r, p.r, n)

C6_Witness ==
  /\ op.name = "Quo" /\ op.ver = 2 /\ op.dst \notin {op.a, op.b}
  /\ in[op.b] # Zero
  /\ LET n == Norm(in[op.b])
         p == Product(in[op.a], Conjugate(in[op.b]))
     IN /\ p.l < 0
        /\ p.l % n # 0
        /\ heap[op.dst].l < 0
        /\ heap[op.dst].l # p.l \div n

\* C7: Quad(x) is strictly positive for x # 0 and is 0 for x = 0; it is never
\* negative.
C7_QuadPositive ==
  op.name = "Quad"
    => /\ ret[1] >= 0
       /\ (in[op.a] # Zero => ret[1] > 0)
       /\ (in[op.a] = Zero => ret[1] = 0)

C7_Witness ==
  /\ op.name = "Quad"
  /\ in[op.a].l < 0 /\ in[op.a].r = in[op.a].l
  /\ ret[1] > 0

\* C8: l.Conj(l.Mul(x, y)) and r.Mul(r.Conj(y), new.Conj(x)) end with l equal
\* to r.
C8_MulConjAntiDistributive ==
  (op.name = "TestMulConjAntiDistributive" /\ op.ver = 2)
    => (ret[3] /\ ret[1] = ret[2])

C8_Witness ==
  /\ op.name = "TestMulConjAntiDistributive" /\ op.ver = 2
  /\ in["x"].r # 0 /\ in["y"].r # 0
  /\ ret[1].r # 0
  /\ ret[1] = ret[2]

\* C9: Conj sets z to (a - b, -b) also when z is the storage of y, so
\* z.Conj(z.Conj(x)) gives x and l.Conj(l) on l = x + y equals
\* Conj(x) + Conj(y) (both definitions of Conj).
C9_ConjAliasingSafe ==
  /\ op.name = "Conj" => heap[op.dst] = Conjugate(in[op.a])
  /\ op.name = "TestConjInvolutive" => (ret[3] /\ ret[1] = in["x"])
  /\ op.name = "TestAddConjDistributive" => (ret[3] /\ ret[1] = ret[2])

C9_Witness ==
  /\ op.name = "Conj"
  /\ op.dst = op.a
  /\ in[op.a].r # 0
  /\ heap[op.dst] = Pair(in[op.a].l - in[op.a].r, 0 - in[op.a].r)

\* C10: for y # 0 and fresh p, q, Mul(p, x, y) followed by Quo(q, p, y)
\* leaves q equal to x.
C10_QuoUndoesMul ==
  (op.name = "MulThenQuo" /\ op.ver = 2 /\ in["y"] # Zero)
    => (err = NoError /\ heap["q"] = in["x"])

C10_Witness ==
  /\ op.name = "MulThenQuo" /\ op.ver = 2
  /\ Norm(in["y"]) > 1
  /\ in["y"].r # 0
  /\ in["x"].l < 0 /\ in["x"].r > 0
  /\ heap["q"] = in["x"]
====
